---- MODULE Spec2Model ----
(***************************************************************************)
(* Single-leader, multi-follower replicated key-value store of LAB4:       *)
(* leader.py (write path, quorum replication) and follower.py (replicate   *)
(* handler with version comparison).                                       *)
(***************************************************************************)
EXTENDS Integers, FiniteSets, Sequences, TLC

---------------------------------------------------------------------------
(* Bounds of the model *)

\* followers of the leader in the concurrent-writes specification (Spec)
NumFollowers == 2
\* write requests the clients issue in Spec
MaxWrites == 2
\* highest version a direct caller of a follower's /replicate sends
MaxVersion == 7
\* distinct (key, value, version) tuples a direct caller sends to a follower
MaxDeliveries == 4
\* requests the reading client sends
MaxReads == 1

(* Program constants *)

\* len(FOLLOWERS): range(1, 6)
LeaderFollowers == 5
\* os.getenv('WRITE_QUORUM', 3)
DefaultQuorum == 3

Keys == {"k1", "k2"}
Values == {"a", "b"}
Writers == 1 .. MaxWrites

\* JSON bodies of POST /write: key and value, either may be missing
WriteBodies ==
    {[key |-> k, value |-> v] : k \in Keys, v \in Values}
        \cup {[key |-> k] : k \in {"k1"}} \cup {[value |-> v] : v \in {"a"}}

\* JSON bodies of POST /replicate: key, value and version, any may be missing;
\* every value and version for k1, one value and two versions for k2
ReplicateBodies ==
    {[key |-> "k1", value |-> v, version |-> n] :
        v \in Values, n \in 1 .. MaxVersion}
        \cup {[key |-> "k2", value |-> "a", version |-> n] : n \in 1 .. 2}
        \cup {[value |-> "a", version |-> 1], [key |-> "k1", version |-> 1],
              [key |-> "k1", value |-> "a"]}

VARIABLES
    FOLLOWERS,                \* leader: the follower endpoints
    WRITE_QUORUM,             \* leader: configured quorum
    requests,                 \* write requests the clients will issue
    version_counter,          \* leader: global version counter
    version_lock,             \* leader: holder of version_lock (0: free)
    store_lock,               \* leader: holder of store_lock (0: free)
    data_store,               \* leader: key -> [value, version]
    pc,                       \* per write request: position in write()
    key, value,               \* per write request: locals of write()
    current_version,          \* per write request: local of write()
    future,                   \* per write, per follower: the submitted task
    seen,                     \* per write: futures as_completed has yielded
    successful_replications,  \* per write: local of replicate_to_followers
    failed_replications,      \* per write: local of replicate_to_followers
    returned,                 \* per write: the return statement taken
    response,                 \* per write: the HTTP response of write()
    follower_store,           \* per follower: key -> [value, version]
    delivered,                \* per follower: tuples a direct caller sent
    reply,                    \* per follower: last response to a direct caller
    reader_pc,                \* the reading client's position in its request
    reader_key,               \* local of read(): key
    reads,                    \* requests the reading client has finished
    reader_response           \* the last response the reading client got

vars == <<FOLLOWERS, WRITE_QUORUM, requests, version_counter, version_lock,
          store_lock, data_store, pc, key, value, current_version, future,
          seen, successful_replications, failed_replications, returned,
          response, follower_store, delivered, reply, reader_pc, reader_key,
          reads, reader_response>>

leaderVars == <<version_counter, version_lock, store_lock, data_store, pc,
                key, value, current_version, future, seen,
                successful_replications, failed_replications, returned,
                response>>

leaderVarsButFuture == <<version_counter, version_lock, store_lock, data_store,
                         pc, key, value, current_version, seen,
                         successful_replications, failed_replications,
                         returned, response>>

configVars == <<FOLLOWERS, WRITE_QUORUM, requests>>

readerVars == <<reader_pc, reader_key, reads, reader_response>>

---------------------------------------------------------------------------
(* The versioned store: a dict key -> {"value", "version"} *)

EmptyStore == [k \in {} |-> [value |-> "", version |-> 0]]

\* data.get(name) is None
Missing(data, name) == name \notin DOMAIN data

\* mutant: a put rebuilds the store from the one entry it writes
putReplacesStore(store, k, v, n) ==
    [x \in {k} |-> [value |-> v, version |-> n]]

\* mutant: a put stamps its version on every entry of the store
putStampsAll(store, k, v, n) ==
    [x \in DOMAIN store \cup {k} |->
        IF x = k THEN [value |-> v, version |-> n]
        ELSE [value |-> store[x].value, version |-> n]]

\* mutant: the leader's put is conditional like the follower's
putIfNewer(store, k, v, n) ==
    IF k \notin DOMAIN store \/ n > store[k].version
    THEN [x \in DOMAIN store \cup {k} |->
             IF x = k THEN [value |-> v, version |-> n] ELSE store[x]]
    ELSE store

\* mutant: an overwrite stores the new value and leaves the old version
putKeepsVersion(store, k, v, n) ==
    [x \in DOMAIN store \cup {k} |->
        IF x = k
        THEN [value |-> v,
              version |-> IF k \in DOMAIN store THEN store[k].version ELSE n]
        ELSE store[x]]

\* data_store[key] = {"value": value, "version": version}
put(store, k, v, n) ==
    [x \in DOMAIN store \cup {k} |->
        IF x = k THEN [value |-> v, version |-> n] ELSE store[x]]

\* mutant: the follower overwrites whatever arrives
IsNewerAlways(store, k, n) == TRUE

\* mutant: the follower also accepts a version equal to the stored one
IsNewerOrEqual(store, k, n) == k \notin DOMAIN store \/ n >= store[k].version

\* existing_data is None or version > existing_data["version"]
IsNewer(store, k, n) == k \notin DOMAIN store \/ n > store[k].version

\* follower.py replicate(): the new store and the HTTP response
replicate(store, data) ==
    IF Missing(data, "key") \/ Missing(data, "value") \/ Missing(data, "version")
    THEN [store |-> store, code |-> 400, updated |-> FALSE]
    ELSE IF IsNewer(store, data.key, data.version)
         THEN [store |-> put(store, data.key, data.value, data.version),
               code |-> 200, updated |-> TRUE]
         ELSE [store |-> store, code |-> 200, updated |-> FALSE]

\* read(): the HTTP response for a key
read(store, k) ==
    IF k \notin DOMAIN store
    THEN [code |-> 404, value |-> "", version |-> 0]
    ELSE [code |-> 200, value |-> store[k].value, version |-> store[k].version]

---------------------------------------------------------------------------
(* Leader: write() *)

NoResponse == [code |-> 0, status |-> "", version |-> 0]

\* mutant: the version is taken before the request is validated
ReceiveCountsFirst(w, data) ==
    /\ w \in requests
    /\ pc[w] = "idle"
    /\ version_counter' = version_counter + 1
    /\ IF Missing(data, "key") \/ Missing(data, "value")
       THEN /\ pc' = [pc EXCEPT ![w] = "rejected"]
            /\ response' = [response EXCEPT ![w] =
                              [code |-> 400, status |-> "error", version |-> 0]]
            /\ UNCHANGED <<key, value>>
       ELSE /\ pc' = [pc EXCEPT ![w] = "received"]
            /\ key' = [key EXCEPT ![w] = data.key]
            /\ value' = [value EXCEPT ![w] = data.value]
            /\ UNCHANGED response
    /\ UNCHANGED <<version_lock, store_lock, data_store,
                   current_version, future, seen, successful_replications,
                   failed_replications, returned, follower_store, delivered,
                   reply, configVars>>
    /\ UNCHANGED readerVars

\* lines 112-117: the request arrives and is validated
Receive(w, data) ==
    /\ w \in requests
    /\ pc[w] = "idle"
    /\ IF Missing(data, "key") \/ Missing(data, "value")
       THEN /\ pc' = [pc EXCEPT ![w] = "rejected"]
            /\ response' = [response EXCEPT ![w] =
                              [code |-> 400, status |-> "error", version |-> 0]]
            /\ UNCHANGED <<key, value>>
       ELSE /\ pc' = [pc EXCEPT ![w] = "received"]
            /\ key' = [key EXCEPT ![w] = data.key]
            /\ value' = [value EXCEPT ![w] = data.value]
            /\ UNCHANGED response
    /\ UNCHANGED <<version_counter, version_lock, store_lock, data_store,
                   current_version, future, seen, successful_replications,
                   failed_replications, returned, follower_store, delivered,
                   reply, configVars>>
    /\ UNCHANGED readerVars

\* mutant: the increment skips a number
NextVersionSkips(c) == c + 2

\* mutant: two writers read the counter before either writes it back
NextVersionLostUpdate(c) == IF c >= 1 THEN c ELSE c + 1

\* version_counter += 1
NextVersion(c) == c + 1

\* mutant: a version is assigned only while no write is replicating
AssignVersionSerialized(w) ==
    /\ \A u \in Writers : pc[u] # "replicating"
    /\ pc[w] = "received"
    /\ version_lock = 0
    /\ version_lock' = w
    /\ version_counter' = NextVersion(version_counter)
    /\ current_version' = [current_version EXCEPT ![w] = version_counter']
    /\ pc' = [pc EXCEPT ![w] = "version_locked"]
    /\ UNCHANGED <<store_lock, data_store, key, value, future, seen,
                   successful_replications, failed_replications, returned,
                   response, follower_store, delivered, reply, configVars>>
    /\ UNCHANGED readerVars

\* lines 120-122: with version_lock: increment and copy the counter
AssignVersion(w) ==
    /\ pc[w] = "received"
    /\ version_lock = 0
    /\ version_lock' = w
    /\ version_counter' = NextVersion(version_counter)
    /\ current_version' = [current_version EXCEPT ![w] = version_counter']
    /\ pc' = [pc EXCEPT ![w] = "version_locked"]
    /\ UNCHANGED <<store_lock, data_store, key, value, future, seen,
                   successful_replications, failed_replications, returned,
                   response, follower_store, delivered, reply, configVars>>
    /\ UNCHANGED readerVars

\* mutant: the store section is nested inside the version section
ReleaseVersionLockNested(w) ==
    /\ pc[w] = "version_locked"
    /\ version_lock = w
    /\ version_lock' = version_lock
    /\ pc' = [pc EXCEPT ![w] = "assigned"]
    /\ UNCHANGED <<version_counter, store_lock, data_store, key, value,
                   current_version, future, seen, successful_replications,
                   failed_replications, returned, response, follower_store,
                   delivered, reply, configVars>>
    /\ UNCHANGED readerVars

\* line 122 -> 123: leaving the with block releases version_lock
ReleaseVersionLock(w) ==
    /\ pc[w] = "version_locked"
    /\ version_lock = w
    /\ version_lock' = 0
    /\ pc' = [pc EXCEPT ![w] = "assigned"]
    /\ UNCHANGED <<version_counter, store_lock, data_store, key, value,
                   current_version, future, seen, successful_replications,
                   failed_replications, returned, response, follower_store,
                   delivered, reply, configVars>>
    /\ UNCHANGED readerVars

\* lines 125-129: with store_lock: overwrite the entry of the key
ApplyLocal(w) ==
    /\ pc[w] = "assigned"
    /\ store_lock = 0
    /\ store_lock' = w
    /\ data_store' = put(data_store, key[w], value[w], current_version[w])
    /\ pc' = [pc EXCEPT ![w] = "store_locked"]
    /\ UNCHANGED <<version_counter, version_lock, key, value, current_version,
                   future, seen, successful_replications, failed_replications,
                   returned, response, follower_store, delivered, reply,
                   configVars>>
    /\ UNCHANGED readerVars

\* mutant: the thread goes on without releasing store_lock
ReleaseStoreLockLeaks(w) ==
    /\ pc[w] = "store_locked"
    /\ store_lock = w
    /\ store_lock' = store_lock
    /\ pc' = [pc EXCEPT ![w] = "applied"]
    /\ UNCHANGED <<version_counter, version_lock, data_store, key, value,
                   current_version, future, seen, successful_replications,
                   failed_replications, returned, response, follower_store,
                   delivered, reply, configVars>>
    /\ UNCHANGED readerVars

\* line 129 -> 130: leaving the with block releases store_lock
ReleaseStoreLock(w) ==
    /\ pc[w] = "store_locked"
    /\ store_lock = w
    /\ store_lock' = 0
    /\ pc' = [pc EXCEPT ![w] = "applied"]
    /\ UNCHANGED <<version_counter, version_lock, data_store, key, value,
                   current_version, future, seen, successful_replications,
                   failed_replications, returned, response, follower_store,
                   delivered, reply, configVars>>
    /\ UNCHANGED readerVars

\* mutant: the attempts are submitted before the store section
DispatchBeforeApply(w) ==
    /\ pc[w] = "assigned"
    /\ future' = [future EXCEPT ![w] = [f \in FOLLOWERS |-> "pending"]]
    /\ successful_replications' = [successful_replications EXCEPT ![w] = 0]
    /\ failed_replications' = [failed_replications EXCEPT ![w] = 0]
    /\ pc' = [pc EXCEPT ![w] = "replicating"]
    /\ UNCHANGED <<version_counter, version_lock, store_lock, data_store, key,
                   value, current_version, seen, returned, response,
                   follower_store, delivered, reply, configVars>>
    /\ UNCHANGED readerVars

\* lines 59-72: replicate_to_followers submits one task per follower
Dispatch(w) ==
    /\ pc[w] = "applied"
    /\ future' = [future EXCEPT ![w] = [f \in FOLLOWERS |-> "pending"]]
    /\ successful_replications' = [successful_replications EXCEPT ![w] = 0]
    /\ failed_replications' = [failed_replications EXCEPT ![w] = 0]
    /\ pc' = [pc EXCEPT ![w] = "replicating"]
    /\ UNCHANGED <<version_counter, version_lock, store_lock, data_store, key,
                   value, current_version, seen, returned, response,
                   follower_store, delivered, reply, configVars>>
    /\ UNCHANGED readerVars

\* line 61: total_followers = len(FOLLOWERS)
total_followers == Cardinality(FOLLOWERS)

\* mutant: the loop reports the quorum one acknowledgment early
QuorumMetEarly(succ) == succ + 1 >= WRITE_QUORUM

\* mutant: the early-success test is off by one
QuorumMetOffByOne(succ) == succ > WRITE_QUORUM

\* successful_replications >= WRITE_QUORUM
QuorumMet(succ) == succ >= WRITE_QUORUM

\* mutant: the early-failure test is off by one
QuorumImpossibleOffByOne(succ, remaining) == succ + remaining <= WRITE_QUORUM

\* mutant: no early failure, the loop waits for every attempt
QuorumImpossibleNever(succ, remaining) == FALSE

\* successful_replications + remaining < WRITE_QUORUM
QuorumImpossible(succ, remaining) == succ + remaining < WRITE_QUORUM

\* mutant: leaving replicate_to_followers cancels the attempts still running
shutdownCancels(futures) ==
    [f \in DOMAIN futures |->
        IF futures[f] = "pending" THEN "cancelled" ELSE futures[f]]

\* lines 102-104: executor.shutdown(wait=False) neither waits for the tasks
\* still running nor cancels them
shutdown(futures) == futures

\* mutant: a write that misses the quorum is answered as an error
WriteResponseQuorumError(w, quorum) ==
    IF quorum
    THEN [code |-> 200, status |-> "success", version |-> current_version[w]]
    ELSE [code |-> 500, status |-> "error", version |-> 0]

\* lines 132-139: the response of write() for the replicator's result
WriteResponse(w, quorum) ==
    [code |-> 200,
     status |-> IF quorum THEN "success" ELSE "partial_success",
     version |-> current_version[w]]

\* lines 75-100: as_completed yields the finished future of follower f; the
\* loop body counts its result and returns early or goes on; when the loop
\* is exhausted line 100 returns; write() answers on the returned value
Observe(w, f) ==
    /\ pc[w] = "replicating"
    /\ f \in FOLLOWERS \ seen[w]
    /\ future[w][f] \in {"true", "false"}
    /\ LET ok == future[w][f] = "true"
           succ == successful_replications[w] + (IF ok THEN 1 ELSE 0)
           fail == failed_replications[w] + (IF ok THEN 0 ELSE 1)
           remaining == total_followers - (succ + fail)
           met == ok /\ QuorumMet(succ)
           impossible == ~met /\ QuorumImpossible(succ, remaining)
           exhausted == ~met /\ ~impossible /\ seen[w] \cup {f} = FOLLOWERS
           quorum == met \/ (exhausted /\ succ >= WRITE_QUORUM)
       IN  /\ successful_replications' =
                 [successful_replications EXCEPT ![w] = succ]
           /\ failed_replications' = [failed_replications EXCEPT ![w] = fail]
           /\ seen' = [seen EXCEPT ![w] = @ \cup {f}]
           /\ future' = [future EXCEPT ![w] =
                           IF met \/ impossible \/ exhausted
                           THEN shutdown(@) ELSE @]
           /\ IF met \/ impossible \/ exhausted
              THEN /\ returned' = [returned EXCEPT ![w] =
                                     IF met THEN "quorum_met"
                                     ELSE IF impossible THEN "quorum_impossible"
                                     ELSE "loop_end"]
                   /\ response' = [response EXCEPT ![w] = WriteResponse(w, quorum)]
                   /\ pc' = [pc EXCEPT ![w] = "done"]
              ELSE UNCHANGED <<returned, response, pc>>
    /\ UNCHANGED <<version_counter, version_lock, store_lock, data_store, key,
                   value, current_version, follower_store, delivered, reply,
                   configVars>>
    /\ UNCHANGED readerVars

---------------------------------------------------------------------------
(* Leader: replicate_to_follower(), one task per write and follower *)

\* line 45: json={"key": key, "value": value, "version": version}
ReplicateBody(w) ==
    [key |-> key[w], value |-> value[w], version |-> current_version[w]]

\* mutant: an acknowledgment that reports updated=False is taken for a failure
ReplicateAckStaleFails(w, f) ==
    /\ future[w][f] = "pending"
    /\ LET r == replicate(follower_store[f], ReplicateBody(w))
       IN  /\ follower_store' = [follower_store EXCEPT ![f] = r.store]
           /\ future' = [future EXCEPT ![w][f] =
                           IF r.code = 200 /\ r.updated THEN "true" ELSE "false"]
    /\ UNCHANGED <<leaderVarsButFuture, delivered, reply, configVars>>
    /\ UNCHANGED readerVars

\* lines 43-48: the follower handles the request and its response arrives;
\* the task returns response.status_code == 200
ReplicateAck(w, f) ==
    /\ future[w][f] = "pending"
    /\ LET r == replicate(follower_store[f], ReplicateBody(w))
       IN  /\ follower_store' = [follower_store EXCEPT ![f] = r.store]
           /\ future' = [future EXCEPT ![w][f] =
                           IF r.code = 200 THEN "true" ELSE "false"]
    /\ UNCHANGED <<leaderVarsButFuture, delivered, reply, configVars>>
    /\ UNCHANGED readerVars

\* lines 43-51: the follower handles the request but its response does not
\* arrive within the timeout; requests.post raises and the task returns False
ReplicateLost(w, f) ==
    /\ future[w][f] = "pending"
    /\ LET r == replicate(follower_store[f], ReplicateBody(w))
       IN  follower_store' = [follower_store EXCEPT ![f] = r.store]
    /\ future' = [future EXCEPT ![w][f] = "false"]
    /\ UNCHANGED <<leaderVarsButFuture, delivered, reply, configVars>>
    /\ UNCHANGED readerVars

\* mutant: a failed attempt is submitted again
ReplicateFailRetry(w, f) ==
    /\ future[w][f] \in {"pending", "false"}
    /\ f \notin seen[w]
    /\ future' = [future EXCEPT ![w][f] =
                    IF @ = "pending" THEN "false" ELSE "pending"]
    /\ UNCHANGED <<leaderVarsButFuture, follower_store, delivered, reply,
                   configVars>>
    /\ UNCHANGED readerVars

\* lines 49-51: the follower is unreachable; requests.post raises and the
\* task returns False
ReplicateFail(w, f) ==
    /\ future[w][f] = "pending"
    /\ future' = [future EXCEPT ![w][f] = "false"]
    /\ UNCHANGED <<leaderVarsButFuture, follower_store, delivered, reply,
                   configVars>>
    /\ UNCHANGED readerVars

---------------------------------------------------------------------------
(* Follower: /replicate called directly *)

WellFormed(data) == DOMAIN data = {"key", "value", "version"}

\* follower.py lines 24-48 for a request of any caller
ClientReplicate(f, data) ==
    /\ f \in FOLLOWERS
    /\ WellFormed(data) =>
           data \in delivered[f] \/ Cardinality(delivered[f]) < MaxDeliveries
    /\ LET r == replicate(follower_store[f], data)
       IN  /\ follower_store' = [follower_store EXCEPT ![f] = r.store]
           /\ reply' = [reply EXCEPT ![f] =
                          [code |-> r.code, updated |-> r.updated]]
    /\ delivered' = [delivered EXCEPT ![f] =
                       IF WellFormed(data) THEN @ \cup {data} ELSE @]
    /\ UNCHANGED <<leaderVars, configVars>>
    /\ UNCHANGED readerVars

---------------------------------------------------------------------------
(* Attempts whose follower does not answer *)

\* lines 43-47: the follower accepted the request and sends no response;
\* requests.post is blocked waiting for it
Hang(w, f) ==
    /\ future[w][f] = "pending"
    /\ future' = [future EXCEPT ![w][f] = "hung"]
    /\ UNCHANGED <<leaderVarsButFuture, follower_store, delivered, reply,
                   configVars, readerVars>>

\* mutant: the timeout of a blocked request is taken for an answer
TimeoutCountsSuccess(w, f) ==
    /\ future[w][f] = "hung"
    /\ future' = [future EXCEPT ![w][f] = "true"]
    /\ UNCHANGED <<leaderVarsButFuture, follower_store, delivered, reply,
                   configVars, readerVars>>

\* lines 46-51: timeout=5 expires, requests.post raises, the task returns False
Timeout(w, f) ==
    /\ future[w][f] = "hung"
    /\ future' = [future EXCEPT ![w][f] = "false"]
    /\ UNCHANGED <<leaderVarsButFuture, follower_store, delivered, reply,
                   configVars, readerVars>>

---------------------------------------------------------------------------
(* GET /read and GET /data, on the leader and on a follower *)

\* the thread of the reading client's request, as a holder of store_lock
Reader == MaxWrites + 1

\* the leader as the node a request is sent to; followers are 1, 2, ...
Leader == 0

\* request.args of GET /read
ReadArgs == {[key |-> k] : k \in Keys} \cup {[other |-> "x"]}

NoReaderResponse ==
    [op |-> "", node |-> Leader, code |-> 0, key |-> "", value |-> "",
     version |-> 0, body |-> EmptyStore]

\* the response of read() on a node for request.args
ReadResponse(n, store, args) ==
    IF Missing(args, "key")
    THEN [op |-> "read", node |-> n, code |-> 400, key |-> "", value |-> "",
          version |-> 0, body |-> EmptyStore]
    ELSE [op |-> "read", node |-> n, code |-> read(store, args.key).code,
          key |-> args.key, value |-> read(store, args.key).value,
          version |-> read(store, args.key).version, body |-> EmptyStore]

\* data_store.copy()
copy(store) == [k \in DOMAIN store |-> store[k]]

\* the response of get_all_data() on a node
DumpResponse(n, store) ==
    [op |-> "dump", node |-> n, code |-> 200, key |-> "", value |-> "",
     version |-> 0, body |-> copy(store)]

\* leader.py lines 143-146: the request arrives; without a key it is
\* answered 400, otherwise the thread goes on to take store_lock
ReadRequest(args) ==
    /\ reader_pc = "idle"
    /\ reads < MaxReads
    /\ IF Missing(args, "key")
       THEN /\ reader_response' = ReadResponse(Leader, data_store, args)
            /\ reads' = reads + 1
            /\ UNCHANGED <<reader_pc, reader_key>>
       ELSE /\ reader_pc' = "read_waiting"
            /\ reader_key' = args.key
            /\ UNCHANGED <<reads, reader_response>>
    /\ UNCHANGED <<leaderVars, follower_store, delivered, reply, configVars>>

\* leader.py line 148: with store_lock
ReadLock ==
    /\ reader_pc = "read_waiting"
    /\ store_lock = 0
    /\ store_lock' = Reader
    /\ reader_pc' = "read_locked"
    /\ UNCHANGED <<version_counter, version_lock, data_store, pc, key, value,
                   current_version, future, seen, successful_replications,
                   failed_replications, returned, response, follower_store,
                   delivered, reply, configVars, reader_key, reads,
                   reader_response>>

\* mutant: the lookup leaves a default entry behind (setdefault for get)
ReadUnlockSetDefault ==
    /\ reader_pc = "read_locked"
    /\ reader_response' = ReadResponse(Leader, data_store, [key |-> reader_key])
    /\ data_store' = IF reader_key \in DOMAIN data_store THEN data_store
                     ELSE put(data_store, reader_key, "", 0)
    /\ store_lock' = 0
    /\ reader_pc' = "idle"
    /\ reader_key' = ""
    /\ reads' = reads + 1
    /\ UNCHANGED <<version_counter, version_lock, pc, key, value,
                   current_version, future, seen, successful_replications,
                   failed_replications, returned, response, follower_store,
                   delivered, reply, configVars>>

\* leader.py lines 149-156: data_store.get(key) inside the lock, the lock is
\* released and the response is built from what was read
ReadUnlock ==
    /\ reader_pc = "read_locked"
    /\ reader_response' = ReadResponse(Leader, data_store, [key |-> reader_key])
    /\ store_lock' = 0
    /\ reader_pc' = "idle"
    /\ reader_key' = ""
    /\ reads' = reads + 1
    /\ UNCHANGED <<version_counter, version_lock, data_store, pc, key, value,
                   current_version, future, seen, successful_replications,
                   failed_replications, returned, response, follower_store,
                   delivered, reply, configVars>>

\* leader.py lines 159-160: GET /data arrives
DumpRequest ==
    /\ reader_pc = "idle"
    /\ reads < MaxReads
    /\ reader_pc' = "dump_waiting"
    /\ UNCHANGED <<leaderVars, follower_store, delivered, reply, configVars,
                   reader_key, reads, reader_response>>

\* leader.py line 162: with store_lock
DumpLock ==
    /\ reader_pc = "dump_waiting"
    /\ store_lock = 0
    /\ store_lock' = Reader
    /\ reader_pc' = "dump_locked"
    /\ UNCHANGED <<version_counter, version_lock, data_store, pc, key, value,
                   current_version, future, seen, successful_replications,
                   failed_replications, returned, response, follower_store,
                   delivered, reply, configVars, reader_key, reads,
                   reader_response>>

\* leader.py line 163: the copy is taken inside the lock and returned
DumpUnlock ==
    /\ reader_pc = "dump_locked"
    /\ reader_response' = DumpResponse(Leader, data_store)
    /\ store_lock' = 0
    /\ reader_pc' = "idle"
    /\ reads' = reads + 1
    /\ UNCHANGED <<version_counter, version_lock, data_store, pc, key, value,
                   current_version, future, seen, successful_replications,
                   failed_replications, returned, response, follower_store,
                   delivered, reply, configVars, reader_key>>

\* follower.py lines 52-65: read() on follower f; its store_lock section is
\* not interleaved with replicate(), which runs whole in one step
FollowerRead(f, args) ==
    /\ f \in FOLLOWERS
    /\ reader_pc = "idle"
    /\ reads < MaxReads
    /\ reader_response' = ReadResponse(f, follower_store[f], args)
    /\ reads' = reads + 1
    /\ UNCHANGED <<leaderVars, follower_store, delivered, reply, configVars,
                   reader_pc, reader_key>>

\* follower.py lines 69-72: get_all_data() on follower f
FollowerDump(f) ==
    /\ f \in FOLLOWERS
    /\ reader_pc = "idle"
    /\ reads < MaxReads
    /\ reader_response' = DumpResponse(f, follower_store[f])
    /\ reads' = reads + 1
    /\ UNCHANGED <<leaderVars, follower_store, delivered, reply, configVars,
                   reader_pc, reader_key>>

---------------------------------------------------------------------------
(* Specifications *)

InitWith(F, Q, R) ==
    /\ FOLLOWERS = F
    /\ WRITE_QUORUM \in Q
    /\ requests = R
    /\ version_counter = 0
    /\ version_lock = 0
    /\ store_lock = 0
    /\ data_store = EmptyStore
    /\ pc = [w \in Writers |-> "idle"]
    /\ key = [w \in Writers |-> ""]
    /\ value = [w \in Writers |-> ""]
    /\ current_version = [w \in Writers |-> 0]
    /\ future = [w \in Writers |-> [f \in F |-> "none"]]
    /\ seen = [w \in Writers |-> {}]
    /\ successful_replications = [w \in Writers |-> 0]
    /\ failed_replications = [w \in Writers |-> 0]
    /\ returned = [w \in Writers |-> "none"]
    /\ response = [w \in Writers |-> NoResponse]
    /\ follower_store = [f \in F |-> EmptyStore]
    /\ delivered = [f \in F |-> {}]
    /\ reply = [f \in F |-> [code |-> 0, updated |-> FALSE]]
    /\ reader_pc = "idle"
    /\ reader_key = ""
    /\ reads = 0
    /\ reader_response = NoReaderResponse

\* concurrent writes on a leader with NumFollowers followers
Init == InitWith(1 .. NumFollowers, 1 .. NumFollowers, Writers)

\* one write on the leader as deployed: five followers
InitDeployed == InitWith(1 .. LeaderFollowers, 1 .. LeaderFollowers + 1, {1})

\* one follower whose /replicate is called with arbitrary bodies
InitFollower == InitWith({1}, {DefaultQuorum}, {})

Next ==
    \/ \E w \in Writers, data \in WriteBodies : Receive(w, data)
    \/ \E w \in Writers : AssignVersion(w)
    \/ \E w \in Writers : ReleaseVersionLock(w)
    \/ \E w \in Writers : ApplyLocal(w)
    \/ \E w \in Writers : ReleaseStoreLock(w)
    \/ \E w \in Writers : Dispatch(w)
    \/ \E w \in Writers, f \in FOLLOWERS : ReplicateAck(w, f)
    \/ \E w \in Writers, f \in FOLLOWERS : ReplicateLost(w, f)
    \/ \E w \in Writers, f \in FOLLOWERS : ReplicateFail(w, f)
    \/ \E w \in Writers, f \in FOLLOWERS : Observe(w, f)

NextFollower == \E f \in FOLLOWERS, data \in ReplicateBodies : ClientReplicate(f, data)

\* replicate_to_follower(w, f) finishes one way or another
Attempt(w, f) == ReplicateAck(w, f) \/ ReplicateLost(w, f) \/ ReplicateFail(w, f)

Spec == Init /\ [][Next]_vars

SpecDeployed == InitDeployed /\ [][Next]_vars

\* every submitted task runs on a pool thread of its own and its request has
\* a timeout, so it finishes
FairSpec ==
    /\ Spec
    /\ \A w \in Writers, f \in 1 .. NumFollowers : WF_vars(Attempt(w, f))

SpecFollower == InitFollower /\ [][NextFollower]_vars

\* one write on a leader whose followers may accept a request and not answer
InitHang == InitWith(1 .. NumFollowers + 1, 1 .. NumFollowers + 1, {1})

NextHang ==
    \/ Next
    \/ \E w \in Writers, f \in FOLLOWERS : Hang(w, f)
    \/ \E w \in Writers, f \in FOLLOWERS : Timeout(w, f)

SpecHang == InitHang /\ [][NextHang]_vars

\* concurrent writes on a leader with one follower, a client that reads and
\* dumps the leader and the follower, and callers that send the follower
\* requests lacking a field
InitClients == InitWith({1}, {1}, Writers)

NextClients ==
    \/ Next
    \/ \E args \in ReadArgs : ReadRequest(args)
    \/ ReadLock
    \/ ReadUnlock
    \/ DumpRequest
    \/ DumpLock
    \/ DumpUnlock
    \/ \E f \in FOLLOWERS, args \in ReadArgs : FollowerRead(f, args)
    \/ \E f \in FOLLOWERS : FollowerDump(f)
    \/ \E f \in FOLLOWERS, data \in ReplicateBodies :
          ~WellFormed(data) /\ ClientReplicate(f, data)

SpecClients == InitClients /\ [][NextClients]_vars

\* the steps of the request thread of write w after validation
WriteStep(w) ==
    \/ AssignVersion(w)
    \/ ReleaseVersionLock(w)
    \/ ApplyLocal(w)
    \/ ReleaseStoreLock(w)
    \/ Dispatch(w)
    \/ \E f \in FOLLOWERS : Observe(w, f)

\* the steps of the reading client's request thread on the leader
ReadStep == ReadLock \/ ReadUnlock \/ DumpLock \/ DumpUnlock

\* every thread that can run does run, and every replication attempt yields
\* an outcome
FairClients ==
    /\ SpecClients
    /\ \A w \in Writers : WF_vars(WriteStep(w))
    /\ \A w \in Writers, f \in {1} : WF_vars(Attempt(w, f))
    /\ WF_vars(ReadStep)

---------------------------------------------------------------------------
(* Properties *)

\* the write has been handed a version
Assigned(w) == pc[w] \notin {"idle", "rejected", "received"}

\* C1: the versions handed out are pairwise distinct, and a write that is
\* assigned its version in a step receives a version strictly greater than
\* every version assigned before that step, whatever the keys are
C1_VersionsStrictlyIncrease ==
    [][/\ \A w \in Writers :
            (~Assigned(w) /\ Assigned(w)') =>
                \A u \in Writers :
                    Assigned(u) => current_version'[w] > current_version[u]
       /\ \A w, u \in Writers :
            (w # u /\ Assigned(w)' /\ Assigned(u)') =>
                current_version'[w] # current_version'[u]]_vars

\* C1 witness: two writes to different keys hold versions at the same time,
\* the one that arrived as request 2 was assigned first
C1_Witness ==
    /\ Assigned(1) /\ Assigned(2)
    /\ pc[1] # "done" /\ pc[2] # "done"
    /\ key[1] # key[2]
    /\ current_version[2] = 1 /\ current_version[1] = 2

\* the tuples a direct caller delivered to follower f for key k
DeliveredFor(f, k) == {d \in delivered[f] : d.key = k}

MaxOf(S) == CHOOSE n \in S : \A m \in S : m <= n

\* C2: after any sequence of replicate deliveries the entry a follower
\* stores for a key carries the maximum version ever delivered for that key
\* and a value that was delivered with that version; a key never delivered
\* has no entry
C2_MaxVersionWins ==
    \A f \in FOLLOWERS, k \in Keys :
        IF DeliveredFor(f, k) = {}
        THEN k \notin DOMAIN follower_store[f]
        ELSE /\ k \in DOMAIN follower_store[f]
             /\ follower_store[f][k].version =
                    MaxOf({d.version : d \in DeliveredFor(f, k)})
             /\ [key |-> k, value |-> follower_store[f][k].value,
                 version |-> follower_store[f][k].version] \in delivered[f]

\* C2 witness: versions 5, 3, 7 and 2 were delivered for k1, the last
\* delivery was a stale one, and the entry has version 7
C2_Witness ==
    /\ {d.version : d \in DeliveredFor(1, "k1")} = {5, 3, 7, 2}
    /\ reply[1] = [code |-> 200, updated |-> FALSE]
    /\ "k1" \in DOMAIN follower_store[1]
    /\ follower_store[1]["k1"].version = 7

\* C3: a well-formed replicate request replaces the entry of its key if and
\* only if the key has no entry or the request's version is strictly greater
\* than the stored one; otherwise the store is left as it was and the reply
\* carries updated = false; a tuple delivered before changes nothing
C3_ReplaceIffStrictlyNewer ==
    [][\A f \in FOLLOWERS, data \in ReplicateBodies :
        (WellFormed(data) /\ ClientReplicate(f, data)) =>
            LET old == follower_store[f]
                new == follower_store'[f]
                k == data.key
                fresh == k \notin DOMAIN old \/ data.version > old[k].version
            IN  /\ fresh =>
                    /\ new = [x \in DOMAIN old \cup {k} |->
                                IF x = k
                                THEN [value |-> data.value, version |-> data.version]
                                ELSE old[x]]
                    /\ reply'[f] = [code |-> 200, updated |-> TRUE]
                /\ ~fresh =>
                    /\ new = old
                    /\ reply'[f] = [code |-> 200, updated |-> FALSE]
                /\ data \in delivered[f] => new = old]_vars

\* C3 witness: two tuples with the same key and version but different values
\* were delivered, the second was answered updated = false
C3_Witness ==
    /\ \E d, e \in delivered[1] :
          d.key = e.key /\ d.version = e.version /\ d.value # e.value
    /\ reply[1] = [code |-> 200, updated |-> FALSE]
    /\ Cardinality(delivered[1]) = 2

\* the attempts of write w that returned True, returned False, still run
Succeeded(w) == {f \in FOLLOWERS : future[w][f] = "true"}
Failed(w) == {f \in FOLLOWERS : future[w][f] = "false"}
Pending(w) == {f \in FOLLOWERS : future[w][f] = "pending"}

\* C4: whenever at least WRITE_QUORUM attempts of a write have succeeded,
\* whichever they are and whatever the other attempts did, the write has
\* reported success, or it is still in its loop and a finished attempt is
\* there for it to read: it never reports partial_success and never has to
\* wait for an attempt that is still running
C4_QuorumOfSuccessesReportsSuccess ==
    \A w \in Writers :
        Cardinality(Succeeded(w)) >= WRITE_QUORUM =>
            /\ pc[w] \in {"replicating", "done"}
            /\ pc[w] = "done" => response[w].status = "success"
            /\ pc[w] = "replicating" =>
                  \E f \in FOLLOWERS \ seen[w] : future[w][f] \in {"true", "false"}

\* C4 witness: five followers, quorum 3; two attempts failed and were seen
\* first, three succeeded, the write reported success
C4_Witness ==
    /\ total_followers = 5 /\ WRITE_QUORUM = 3
    /\ Cardinality(Succeeded(1)) = 3 /\ Cardinality(Failed(1)) = 2
    /\ failed_replications[1] = 2
    /\ pc[1] = "done" /\ response[1].status = "success"

\* the write was accepted: it passed validation
Accepted(w) == pc[w] \notin {"idle", "rejected"}

\* C5: a write all of whose attempts resolved with fewer than WRITE_QUORUM
\* successes reports partial_success; a write that reports partial_success
\* carries the version it was assigned, and its local apply stays: with no
\* other write to its key, read(key) on the leader returns its value and
\* its version
C5_PartialSuccessKeepsLocalWrite ==
    \A w \in Writers :
        /\ (pc[w] = "done" /\ Pending(w) = {}
                /\ Cardinality(Succeeded(w)) < WRITE_QUORUM) =>
              response[w].status = "partial_success"
        /\ (pc[w] = "done" /\ response[w].status = "partial_success") =>
              /\ response[w].code = 200
              /\ response[w].version = current_version[w]
              /\ response[w].version >= 1
              /\ (\A u \in Writers \ {w} : Accepted(u) => key[u] # key[w]) =>
                    read(data_store, key[w]) =
                        [code |-> 200, value |-> value[w],
                         version |-> current_version[w]]

\* C5 witness: with quorum 2 one attempt succeeded and one failed; the write
\* reported partial_success while another write to another key was applied
C5_Witness ==
    /\ WRITE_QUORUM = 2
    /\ pc[1] = "done" /\ response[1].status = "partial_success"
    /\ Cardinality(Succeeded(1)) = 1 /\ Cardinality(Failed(1)) = 1
    /\ pc[2] = "done" /\ key[2] # key[1]
    /\ read(data_store, key[1]).value = value[1]

\* C6: for 1 <= WRITE_QUORUM <= F (F followers) the loop never waits once
\* the outcomes it has counted make the quorum unreachable: while it waits,
\* successes + uncounted >= WRITE_QUORUM; and when it returns false early it
\* has counted exactly F - WRITE_QUORUM + 1 failures
C6_EarlyFailure ==
    \A w \in Writers :
        WRITE_QUORUM <= total_followers =>
            /\ pc[w] = "replicating" =>
                  successful_replications[w]
                      + (total_followers - successful_replications[w]
                            - failed_replications[w]) >= WRITE_QUORUM
            /\ returned[w] = "quorum_impossible" =>
                  /\ failed_replications[w] = total_followers - WRITE_QUORUM + 1
                  /\ response[w].status = "partial_success"

\* C6 witness: five followers, quorum 4; after one success and two failures
\* the write returned while two attempts are still running
C6_Witness ==
    /\ total_followers = 5 /\ WRITE_QUORUM = 4
    /\ pc[1] = "done" /\ returned[1] = "quorum_impossible"
    /\ successful_replications[1] = 1 /\ failed_replications[1] = 2
    /\ Cardinality(Pending(1)) = 2

\* C7: the loop is never waiting with WRITE_QUORUM successes counted; when it
\* returns true it has counted exactly WRITE_QUORUM successes, and it has
\* read the outcome of no attempt that is still running
C7_EarlySuccess ==
    \A w \in Writers :
        /\ pc[w] = "replicating" => successful_replications[w] < WRITE_QUORUM
        /\ returned[w] = "quorum_met" =>
              /\ successful_replications[w] = WRITE_QUORUM
              /\ response[w].status = "success"
        /\ seen[w] \cap Pending(w) = {}
        /\ Cardinality(seen[w]) =
              successful_replications[w] + failed_replications[w]

\* C7 witness: five followers, quorum 3; the write returned on the third
\* success while two attempts are still running
C7_Witness ==
    /\ total_followers = 5 /\ WRITE_QUORUM = 3
    /\ pc[1] = "done" /\ returned[1] = "quorum_met"
    /\ Cardinality(seen[1]) = 3
    /\ Cardinality(Pending(1)) = 2

\* follower f holds the key of write w with a version at least the write's
Holds(f, w) ==
    /\ key[w] \in DOMAIN follower_store[f]
    /\ follower_store[f][key[w]].version >= current_version[w]

\* C8: an attempt still running when the quorum decision is returned is not
\* cancelled: every attempt finishes (from some point on it is not running,
\* having returned True or False), and every follower that answered its
\* request holds the key with a version at least the write's version
C8_OutstandingAttemptsComplete ==
    /\ \A w \in Writers, f \in 1 .. NumFollowers :
          <>[](future[w][f] \in {"none", "true", "false"})
    /\ [](\A w \in Writers, f \in 1 .. NumFollowers :
            future[w][f] = "true" => Holds(f, w))

\* C8 witness: the write returned while an attempt was running, and by now
\* every follower answered and holds the entry
C8_Witness ==
    /\ pc[1] = "done"
    /\ Cardinality(seen[1]) < total_followers
    /\ Succeeded(1) = FOLLOWERS
    /\ \A f \in FOLLOWERS : Holds(f, 1)

\* C9: in the step in which write() returns, whatever its quorum outcome, a
\* read of its key on the leader returns the value just written, unless a
\* write to that key with a higher version has been accepted
C9_ReadYourWrite ==
    [][\A w \in Writers :
        (pc[w] # "done" /\ pc'[w] = "done"
            /\ ~\E u \in Writers \ {w} :
                  /\ Assigned(u)' /\ key'[u] = key'[w]
                  /\ current_version'[u] > current_version'[w]) =>
            /\ read(data_store', key'[w]).code = 200
            /\ read(data_store', key'[w]).value = value'[w]]_vars

\* every write request was answered and every attempt returned True
AllReplicated ==
    /\ \A w \in Writers : pc[w] \in {"done", "rejected"}
    /\ \A w \in Writers : pc[w] = "done" => Succeeded(w) = FOLLOWERS

\* C10: once the concurrent writes have returned and every attempt was
\* delivered successfully, the leader and each follower hold the same value
\* and the same version for every key
C10_LeaderAndFollowersAgree ==
    AllReplicated =>
        \A f \in FOLLOWERS : follower_store[f] = data_store

\* C11: on the leader and on every follower the version stored for a key
\* never decreases in any step
C11_VersionNeverDecreases ==
    [][/\ \A k \in DOMAIN data_store :
            /\ k \in DOMAIN data_store'
            /\ data_store'[k].version >= data_store[k].version
       /\ \A f \in FOLLOWERS : \A k \in DOMAIN follower_store[f] :
            /\ k \in DOMAIN follower_store'[f]
            /\ follower_store'[f][k].version >= follower_store[f][k].version]_vars

\* the writes to key k that were handed a version
WritesTo(k) == {w \in Writers : Assigned(w) /\ key[w] = k}

\* the write to key k with the highest version
LastWriteTo(k) ==
    CHOOSE w \in WritesTo(k) :
        \A u \in WritesTo(k) : current_version[u] <= current_version[w]

\* C12: once every write has returned and every attempt was delivered
\* successfully, every follower holds, for each key written, the value and
\* version of the write with the highest version for that key, and nothing
\* else: all followers hold identical stores
C12_FollowersConverge ==
    AllReplicated =>
        \A f \in FOLLOWERS :
            /\ DOMAIN follower_store[f] = {k \in Keys : WritesTo(k) # {}}
            /\ \A k \in DOMAIN follower_store[f] :
                  follower_store[f][k] =
                      [value |-> value[LastWriteTo(k)],
                       version |-> current_version[LastWriteTo(k)]]

\* C12 witness: two writes of different values to the same key were fully
\* replicated
C12_Witness ==
    /\ AllReplicated
    /\ pc[1] = "done" /\ pc[2] = "done"
    /\ key[1] = key[2] /\ value[1] # value[2]
    /\ current_version[1] > current_version[2]

\* C13: an attempt that ends in failure changes nothing on the leader but its
\* own future; when the loop reads it, failed_replications grows by one and
\* successful_replications stays; and every write that returns answers 200
\* with success or partial_success and its version
C13_FollowerFailureIsOneFailure ==
    [][\A w \in Writers :
        /\ \A f \in FOLLOWERS :
              (future[w][f] = "pending" /\ future'[w][f] = "false") =>
                  UNCHANGED <<pc, response, successful_replications,
                              failed_replications, data_store, version_counter>>
        /\ \A f \in FOLLOWERS :
              (f \in seen'[w] \ seen[w] /\ future[w][f] = "false") =>
                  /\ failed_replications'[w] = failed_replications[w] + 1
                  /\ successful_replications'[w] = successful_replications[w]
        /\ pc'[w] = "done" =>
              /\ response'[w].code = 200
              /\ response'[w].status \in {"success", "partial_success"}
              /\ response'[w].version = current_version'[w]]_vars

\* C13 witness: a write read one failed attempt, counted it once, and still
\* answered 200 with success and its version
C13_Witness ==
    /\ pc[1] = "done"
    /\ \E f \in seen[1] : future[1][f] = "false"
    /\ failed_replications[1] = 1
    /\ response[1].code = 200
    /\ response[1].status = "success"
    /\ response[1].version = current_version[1]

Counted(w, r) == {f \in seen[w] : future[w][f] = r}

C15_WritesAndReadsComplete ==
    /\ \A w \in Writers : <>[](pc[w] \in {"idle", "rejected", "done"})
    /\ <>[](reader_pc = "idle")

\* C15 witness: both writes of one key were answered and a read on the
\* leader completed between their local applies
C15_Witness ==
    /\ pc[1] = "done" /\ pc[2] = "done"
    /\ key[1] = key[2]
    /\ reads = 1 /\ reader_pc = "idle"
    /\ reader_response.op = "read" /\ reader_response.node = Leader
    /\ reader_response.code = 200
    /\ reader_response.key = key[1]
    /\ reader_response.version # data_store[key[1]].version

\* C16: a write lacking key or value is answered 400 in a step that changes
\* neither the counter nor any store nor any attempt, and it never gets a
\* version or an attempt later; a replicate request lacking key, value or
\* version is answered 400 and leaves the follower's store as it was
C16_RejectedRequestsChangeNothing ==
    [][/\ \A w \in Writers :
            (pc[w] = "idle" /\ pc'[w] = "rejected") =>
                /\ response'[w].code = 400
                /\ UNCHANGED <<version_counter, data_store, current_version,
                               future, follower_store>>
       /\ \A w \in Writers :
            pc[w] = "rejected" =>
                /\ pc'[w] = "rejected"
                /\ current_version'[w] = 0
                /\ \A f \in FOLLOWERS : future'[w][f] = "none"
       /\ \A f \in FOLLOWERS, data \in ReplicateBodies :
            ~WellFormed(data) =>
                /\ replicate(follower_store[f], data).code = 400
                /\ replicate(follower_store[f], data).store = follower_store[f]
       /\ \A f \in FOLLOWERS :
            (reply'[f] # reply[f] /\ reply'[f].code = 400) =>
                UNCHANGED <<follower_store, data_store, version_counter>>]_vars

\* C16 witness: one write was rejected, the other was applied and replicated,
\* and the follower, holding an entry, answered 400 to a malformed request
C16_Witness ==
    /\ pc[1] = "rejected" /\ pc[2] = "done"
    /\ version_counter = 1
    /\ reply[1].code = 400
    /\ DOMAIN follower_store[1] # {}

\* the store of node n
StoreOf(n) == IF n = Leader THEN data_store ELSE follower_store[n]

\* C17: the body of a dump equals the node's store in the state the dump was
\* answered in, the dump does not change it, and every entry of the body is
\* the value and the version of one write
C17_DumpIsSnapshot ==
    [][(reader_response' # reader_response /\ reader_response'.op = "dump") =>
          /\ reader_response'.code = 200
          /\ reader_response'.body = StoreOf(reader_response'.node)
          /\ UNCHANGED <<data_store, follower_store>>
          /\ \A k \in DOMAIN reader_response'.body :
                \E w \in Writers :
                    /\ Assigned(w)
                    /\ key[w] = k
                    /\ reader_response'.body[k] =
                           [value |-> value[w], version |-> current_version[w]]]_vars

\* C17 witness: a dump of the leader shows the second write to a key while
\* the first one, with the lower version, has not been applied yet
C17_Witness ==
    /\ reader_response.op = "dump"
    /\ reader_response.node = Leader
    /\ \E k \in DOMAIN reader_response.body :
          /\ reader_response.body[k].version = 2
          /\ \E w \in Writers :
                key[w] = k /\ current_version[w] = 1 /\ pc[w] = "assigned"

\* C18: a step of a read or a dump changes no store and not the counter; a
\* read of a key the store lacks is answered 404 and the key is still
\* absent after it; a read of a key it holds is answered with the entry
C18_ReadsChangeNothing ==
    [][readerVars' # readerVars =>
          /\ UNCHANGED <<data_store, version_counter, follower_store,
                         current_version, future, pc>>
          /\ (reader_response' # reader_response
                /\ reader_response'.op = "read"
                /\ reader_response'.code # 400) =>
                LET r == reader_response'
                    store == StoreOf(r.node)
                IN  IF r.key \in DOMAIN store
                    THEN /\ r.code = 200
                         /\ r.value = store[r.key].value
                         /\ r.version = store[r.key].version
                    ELSE /\ r.code = 404
                         /\ r.key \notin DOMAIN (IF r.node = Leader
                                                  THEN data_store'
                                                  ELSE follower_store'[r.node])]_vars

\* C18 witness: the leader holds one key and answered 404 for the other
C18_Witness ==
    /\ reader_response.op = "read"
    /\ reader_response.node = Leader
    /\ reader_response.code = 404
    /\ version_counter >= 1
    /\ DOMAIN data_store # {}
    /\ reader_response.key \notin DOMAIN data_store

\* C19: a request thread holds version_lock only inside its version section
\* and store_lock only inside its store section, so never both and never
\* while its attempts run; an attempt in progress therefore holds back
\* neither another write's version section or store section nor a read
C19_LocksAreShortAndDisjoint ==
    /\ \A w \in Writers : version_lock = w => pc[w] = "version_locked"
    /\ \A w \in Writers : store_lock = w => pc[w] = "store_locked"
    /\ store_lock = Reader => reader_pc \in {"read_locked", "dump_locked"}
    /\ ~(version_lock # 0 /\ version_lock = store_lock)
    /\ \A w \in Writers, f \in FOLLOWERS :
          future[w][f] = "pending" => (version_lock # w /\ store_lock # w)
    /\ \A u \in Writers :
          (pc[u] = "received" /\ \A w \in Writers : pc[w] # "version_locked")
              => ENABLED AssignVersion(u)
    /\ \A u \in Writers :
          (/\ pc[u] = "assigned"
           /\ \A w \in Writers : pc[w] # "store_locked"
           /\ reader_pc \notin {"read_locked", "dump_locked"})
              => ENABLED ApplyLocal(u)
    /\ (/\ reader_pc = "read_waiting"
        /\ \A w \in Writers : pc[w] # "store_locked")
              => ENABLED ReadLock

\* C19 witness: while an attempt of one write is in progress, the other write
\* is inside its version section and a read is inside its store section
C19_Witness ==
    /\ pc[1] = "replicating" /\ future[1][1] = "pending"
    /\ pc[2] = "version_locked" /\ version_lock = 2
    /\ reader_pc = "read_locked" /\ store_lock = Reader

\* C20: the counter equals the number of writes that were handed a version,
\* the versions handed out are exactly 1 .. version_counter, and a step
\* changes the counter only by adding one while handing out a version
C20_CounterCountsWrites ==
    [][/\ version_counter' = Cardinality({w \in Writers : Assigned(w)'})
       /\ {current_version'[w] : w \in {u \in Writers : Assigned(u)'}}
              = 1 .. version_counter'
       /\ \/ version_counter' = version_counter
          \/ /\ version_counter' = version_counter + 1
             /\ \E w \in Writers : ~Assigned(w) /\ Assigned(w)'
       /\ \A w \in Writers :
              (~Assigned(w) /\ Assigned(w)') =>
                  version_counter' = version_counter + 1]_vars

\* C20 witness: both writes were handed versions, one was rejected before
C20_Witness ==
    /\ version_counter = 2
    /\ Assigned(1) /\ Assigned(2)
    /\ pc[1] = "done" /\ pc[2] = "done"

\* C21: no step removes a key from the store of the leader or of a follower
C21_KeysOnlyGrow ==
    [][/\ DOMAIN data_store \subseteq DOMAIN data_store'
       /\ \A f \in FOLLOWERS :
             DOMAIN follower_store[f] \subseteq DOMAIN follower_store'[f]]_vars

\* C21 witness: after writes to both keys, their deliveries and a request of
\* the reading client, the leader and the follower hold both keys
C21_Witness ==
    /\ DOMAIN data_store = Keys
    /\ DOMAIN follower_store[1] = Keys
    /\ reads = 1
    /\ pc[1] = "done" /\ pc[2] = "done"

\* C22: once replicate_to_followers has returned False, fewer than
\* WRITE_QUORUM attempts of the write have succeeded or can still succeed;
\* once it has returned True at least WRITE_QUORUM have succeeded; so with
\* all attempts resolved the result is True exactly when the successes reach
\* WRITE_QUORUM
C22_FalseOnlyWhenUnreachable ==
    \A w \in Writers :
        pc[w] = "done" =>
            /\ response[w].status = "partial_success" =>
                  Cardinality(Succeeded(w)) + Cardinality(Pending(w))
                      < WRITE_QUORUM
            /\ response[w].status = "success" =>
                  Cardinality(Succeeded(w)) >= WRITE_QUORUM
            /\ Pending(w) = {} =>
                  (response[w].status = "success"
                      <=> Cardinality(Succeeded(w)) >= WRITE_QUORUM)

\* C22 witness: the replicator returned False early, with attempts still
\* running, for a quorum the followers could have reached
C22_Witness ==
    /\ pc[1] = "done"
    /\ response[1].status = "partial_success"
    /\ returned[1] = "quorum_impossible"
    /\ WRITE_QUORUM <= Cardinality(FOLLOWERS)
    /\ Cardinality(Succeeded(1)) >= 1
    /\ Cardinality(Pending(1)) >= 1

\* C23: a delivery of write w to a follower that already holds, for the key,
\* a version not lower than w's is stale; the follower answers it 200 with
\* updated=False and keeps its store; when that answer arrives the attempt returns True, never
\* False; and the loop has counted every attempt that returned True as a
\* success
C23_StaleAckIsSuccess ==
    /\ \A w \in Writers, f \in FOLLOWERS :
          (future[w][f] = "pending" /\ Holds(f, w)) =>
              /\ replicate(follower_store[f], ReplicateBody(w)).code = 200
              /\ ~replicate(follower_store[f], ReplicateBody(w)).updated
              /\ replicate(follower_store[f], ReplicateBody(w)).store
                     = follower_store[f]
              /\ ENABLED (ReplicateAck(w, f) /\ future'[w][f] = "true")
              /\ ~ENABLED (ReplicateAck(w, f) /\ future'[w][f] = "false")
    /\ \A w \in Writers :
          /\ successful_replications[w]
                 = Cardinality({f \in seen[w] : future[w][f] = "true"})
          /\ failed_replications[w]
                 = Cardinality({f \in seen[w] : future[w][f] = "false"})

\* C23 witness: the write with version 1 reached its quorum of two although
\* both followers already held version 2 and kept it
C23_Witness ==
    /\ WRITE_QUORUM = 2
    /\ \E w \in Writers :
          /\ pc[w] = "done"
          /\ current_version[w] = 1
          /\ response[w].status = "success"
          /\ successful_replications[w] = 2
          /\ \A f \in FOLLOWERS :
                /\ key[w] \in DOMAIN follower_store[f]
                /\ follower_store[f][key[w]].version = 2
                /\ follower_store[f][key[w]].value # value[w]

\* the followers that hold, for the key of write w, w's version or a higher one
Holders(w) == {f \in FOLLOWERS : Holds(f, w)}

\* C24: when a write has been answered status=success, at least WRITE_QUORUM
\* followers hold an entry for its key with its version or a higher one, at
\* that moment and ever after
C24_SuccessMeansQuorumHolds ==
    \A w \in Writers :
        (pc[w] = "done" /\ response[w].status = "success") =>
            Cardinality(Holders(w)) >= WRITE_QUORUM

\* C24 witness: a write was answered success with exactly WRITE_QUORUM = 1
\* follower holding it; the other attempt failed
C24_Witness ==
    /\ WRITE_QUORUM = 1
    /\ pc[1] = "done" /\ response[1].status = "success"
    /\ Cardinality(Holders(1)) = 1
    /\ Cardinality(Failed(1)) = 1

\* C25: the store section of a write leaves the leader's entry for the key
\* equal to the write's value and version, whatever entry was there before
C25_LeaderPutIsUnconditional ==
    [][\A w \in Writers :
          (pc[w] = "assigned" /\ pc'[w] = "store_locked") =>
              /\ key[w] \in DOMAIN data_store'
              /\ data_store'[key[w]] =
                     [value |-> value[w], version |-> current_version[w]]]_vars

\* C25 witness: the write with version 1 is inside its store section and has
\* replaced the entry of version 2 that the other write had stored
C25_Witness ==
    \E w, u \in Writers :
        /\ pc[w] = "store_locked"
        /\ current_version[w] = 1 /\ current_version[u] = 2
        /\ key[u] = key[w] /\ value[u] # value[w]
        /\ pc[u] \in {"applied", "replicating", "done"}
        /\ data_store[key[w]] = [value |-> value[w], version |-> 1]

\* the steps of the request thread of a write, in the order of write()
StepOrder ==
    {<<"idle", "rejected">>, <<"idle", "received">>,
     <<"received", "version_locked">>, <<"version_locked", "assigned">>,
     <<"assigned", "store_locked">>, <<"store_locked", "applied">>,
     <<"applied", "replicating">>, <<"replicating", "done">>}

\* C26: a write moves through its steps in the order of write(): version,
\* store, dispatch, decision; it has a version from the version section on,
\* the leader holds its key from the store section on, its attempts exist
\* only from the dispatch on, and it is answered once, success or
\* partial_success; every follower holds only keys the leader holds, at
\* versions not above version_counter
C26_StepsInOrder ==
    /\ [][\A w \in Writers :
            /\ pc'[w] = pc[w] \/ <<pc[w], pc'[w]>> \in StepOrder
            /\ pc[w] = "done" => response'[w] = response[w]]_vars
    /\ [](\A w \in Writers :
            /\ Assigned(w) <=> current_version[w] >= 1
            /\ pc[w] \in {"applied", "replicating", "done"} =>
                  key[w] \in DOMAIN data_store
            /\ (\E f \in FOLLOWERS : future[w][f] # "none") <=>
                  pc[w] \in {"replicating", "done"}
            /\ pc[w] = "done" <=>
                  response[w].status \in {"success", "partial_success"})
    /\ [](\A f \in FOLLOWERS :
            /\ DOMAIN follower_store[f] \subseteq DOMAIN data_store
            /\ \A k \in DOMAIN follower_store[f] :
                  follower_store[f][k].version <= version_counter)

\* C26 witness: both writes went through all their steps, one answered
\* success and one partial_success, and a follower holds version 2 of a key
\* whose entry on the leader has version 1
C26_Witness ==
    /\ pc[1] = "done" /\ pc[2] = "done"
    /\ version_counter = 2
    /\ \E k \in DOMAIN data_store :
          /\ data_store[k].version = 1
          /\ k \in DOMAIN follower_store[1]
          /\ follower_store[1][k].version = 2
    /\ {response[1].status, response[2].status}
           = {"success", "partial_success"}

\* C27: a step changes a follower's store only by handling the delivery of
\* one attempt that was running, and every entry a follower holds is the
\* key, value and version of one write whose attempt to it has finished
C27_FollowerHoldsDispatchedTuples ==
    /\ [][follower_store' # follower_store =>
            \E w \in Writers, f \in FOLLOWERS :
                /\ future[w][f] = "pending"
                /\ future'[w][f] \in {"true", "false"}
                /\ follower_store' =
                       [follower_store EXCEPT ![f] =
                           replicate(@, ReplicateBody(w)).store]]_vars
    /\ [](\A f \in FOLLOWERS : \A k \in DOMAIN follower_store[f] :
            \E w \in Writers :
                /\ future[w][f] \in {"true", "false"}
                /\ ReplicateBody(w) =
                       [key |-> k, value |-> follower_store[f][k].value,
                        version |-> follower_store[f][k].version])

\* C27 witness: two writes of different values to one key were delivered to
\* the follower, which holds the second, and the follower also answered a
\* malformed request and a read
C27_Witness ==
    /\ key[1] = key[2] /\ value[1] # value[2]
    /\ future[1][1] = "true" /\ future[2][1] = "true"
    /\ \E w \in Writers :
          /\ current_version[w] = 2
          /\ follower_store[1][key[w]] = [value |-> value[w], version |-> 2]
    /\ reply[1].code = 400
    /\ reader_response.op = "read" /\ reader_response.node = 1

\* C28: the attempts of a write are created in one step, one per follower,
\* all running; an attempt that has returned never runs again; a follower's
\* store changes for a write only in the step that ends its attempt to that
\* follower; the key, value and version of a write that has attempts never
\* change; and two writes never carry the same version
C28_OneAttemptPerFollower ==
    /\ [][\A w \in Writers :
            /\ (\E f \in FOLLOWERS : future[w][f] = "none" /\ future'[w][f] # "none")
                  => \A f \in FOLLOWERS :
                        future[w][f] = "none" /\ future'[w][f] = "pending"
            /\ \A f \in FOLLOWERS :
                  /\ future[w][f] \in {"true", "false"} =>
                        future'[w][f] = future[w][f]
                  /\ future[w][f] = "pending" =>
                        future'[w][f] \in {"pending", "true", "false"}
            /\ (\E f \in FOLLOWERS : future[w][f] # "none") =>
                  ReplicateBody(w)' = ReplicateBody(w)]_vars
    /\ [][\A f \in FOLLOWERS :
            follower_store'[f] # follower_store[f] =>
                Cardinality({w \in Writers :
                    future[w][f] = "pending" /\ future'[w][f] # "pending"}) = 1]_vars
    /\ [](\A w, u \in Writers :
            (w # u /\ Assigned(w) /\ Assigned(u)) =>
                current_version[w] # current_version[u])

\* C28 witness: both writes have one finished attempt per follower, some of
\* them failed and none was repeated
C28_Witness ==
    /\ pc[1] = "done" /\ pc[2] = "done"
    /\ \A w \in Writers, f \in FOLLOWERS : future[w][f] \in {"true", "false"}
    /\ Cardinality(Failed(1)) = 1
    /\ Cardinality(Failed(2)) = 2

\* C29: while a write is waiting for its quorum decision, another write that
\* waits for its version section, its store section or its dispatch can take
\* that step as soon as no thread is inside the section, and when both
\* writes have an attempt running to one follower either delivery can be the
\* next to arrive
C29_ReplicationDoesNotSerializeWrites ==
    \A w, u \in Writers :
        (w # u /\ pc[w] = "replicating") =>
            /\ (pc[u] = "received" /\ version_lock = 0) =>
                  ENABLED AssignVersion(u)
            /\ (pc[u] = "assigned" /\ store_lock = 0) =>
                  ENABLED ApplyLocal(u)
            /\ pc[u] = "applied" => ENABLED Dispatch(u)
            /\ \A f \in FOLLOWERS :
                  (future[w][f] = "pending" /\ future[u][f] = "pending") =>
                      /\ ENABLED ReplicateAck(w, f)
                      /\ ENABLED ReplicateAck(u, f)

\* C29 witness: both writes of one key are waiting for their decisions;
\* follower 1 got the write with version 2 before the one with version 1,
\* follower 2 got the write with version 1 first
C29_Witness ==
    \E w, u \in Writers :
        /\ pc[w] = "replicating" /\ pc[u] = "replicating"
        /\ key[w] = key[u]
        /\ current_version[w] = 1 /\ current_version[u] = 2
        /\ future[u][1] = "true" /\ future[w][1] = "pending"
        /\ future[w][2] = "true" /\ future[u][2] = "pending"
        /\ follower_store[1][key[w]].version = 2
        /\ follower_store[2][key[w]].version = 1

\* the keys whose entry differs between two stores
ChangedKeys(old, new) ==
    {k \in DOMAIN old \cup DOMAIN new :
        k \notin DOMAIN old \/ k \notin DOMAIN new \/ old[k] # new[k]}

\* C30: a step changes the store of at most one node; when it changes the
\* leader's store it is the store section of one write and only the entry of
\* that write's key differs; when it changes a follower's store it is the
\* delivery of one write to that follower and only the entry of that write's
\* key differs
C30_OnlyTheKeyOnThatNode ==
    [][/\ data_store' # data_store =>
            /\ follower_store' = follower_store
            /\ \E w \in Writers :
                  /\ pc[w] = "assigned" /\ pc'[w] = "store_locked"
                  /\ ChangedKeys(data_store, data_store') = {key[w]}
       /\ \A f \in FOLLOWERS :
            follower_store'[f] # follower_store[f] =>
                /\ data_store' = data_store
                /\ \A g \in FOLLOWERS \ {f} :
                      follower_store'[g] = follower_store[g]
                /\ \E w \in Writers :
                      /\ future[w][f] = "pending" /\ future'[w][f] # "pending"
                      /\ ChangedKeys(follower_store[f], follower_store'[f])
                             = {key[w]}]_vars

\* C30 witness: the leader and a follower hold both keys at different
\* versions, the other follower holds one key only
C30_Witness ==
    /\ DOMAIN data_store = Keys
    /\ DOMAIN follower_store[1] = Keys
    /\ follower_store[1]["k1"].version # follower_store[1]["k2"].version
    /\ Cardinality(DOMAIN follower_store[2]) = 1

\* C31: WRITE_QUORUM is used as configured; when it exceeds the number of
\* followers the loop returns False on the early-failure test after reading
\* one outcome, the write is answered partial_success, the leader holds the
\* write and every follower was sent it
C31_QuorumAboveFollowers ==
    \A w \in Writers :
        WRITE_QUORUM > total_followers =>
            /\ pc[w] = "replicating" => seen[w] = {}
            /\ pc[w] = "done" =>
                  /\ response[w] = [code |-> 200, status |-> "partial_success",
                                    version |-> current_version[w]]
                  /\ returned[w] = "quorum_impossible"
                  /\ Cardinality(seen[w]) = 1
                  /\ data_store[key[w]] =
                         [value |-> value[w], version |-> current_version[w]]
                  /\ \A f \in FOLLOWERS : future[w][f] # "none"

\* C31 witness: with a quorum of six on five followers the write was answered
\* partial_success after one successful outcome, and all five followers
\* hold it
C31_Witness ==
    /\ WRITE_QUORUM = LeaderFollowers + 1
    /\ pc[1] = "done"
    /\ response[1].status = "partial_success"
    /\ successful_replications[1] = 1
    /\ Cardinality(Holders(1)) = LeaderFollowers

\* C32: with 1 <= WRITE_QUORUM <= len(FOLLOWERS) replicate_to_followers
\* returns from one of the two tests inside the loop, never from the
\* statement after it
C32_LoopEndNeverReached ==
    \A w \in Writers :
        (1 <= WRITE_QUORUM /\ WRITE_QUORUM <= total_followers) =>
            /\ returned[w] # "loop_end"
            /\ pc[w] = "done" =>
                  returned[w] \in {"quorum_met", "quorum_impossible"}
            /\ (pc[w] = "replicating" /\ seen[w] # {}) =>
                  /\ successful_replications[w] < WRITE_QUORUM
                  /\ total_followers - failed_replications[w] >= WRITE_QUORUM

\* C32 witness: the loop returned on the early-success test only when it
\* processed the last of the five outcomes
C32_Witness ==
    /\ WRITE_QUORUM <= total_followers
    /\ pc[1] = "done"
    /\ seen[1] = FOLLOWERS
    /\ returned[1] = "quorum_met"
    /\ failed_replications[1] >= 1

====
